---- MODULE Spec2Model ----
(***************************************************************************)
(* CosmicBeats CDN simulator: the per-satellite CDN provider               *)
(* (ModelCDNProvider.__check_local_cache_only), the replica directory      *)
(* (Topology.global_cache) and the ISL hop-distance memo                   *)
(* (Topology.get_ISL_dist / get_shortest_replica).                         *)
(*                                                                         *)
(* One batch of requests on a satellite is a call of handle_requests.  The *)
(* call is cut at its synchronisation points (provider lock, topology      *)
(* lock), so batches on different satellites interleave as the threads     *)
(* would.  An exception leaves the call at pc = "raised": the provider     *)
(* lock is released only on the normal path (line 255), so it stays held.  *)
(***************************************************************************)
EXTENDS Integers, Sequences, FiniteSets, TLC

\* ---------------------------------------------------------------- bounds
MaxCapacity == 3
MaxBatchLen == 1
MaxDispatch == 3
MaxEndTime == 1
MaxSplitLen == 10
MaxSplitSats == 4
MaxViews == 3
MaxSchedule == 3
MaxGen == 2
MaxNodes == 3

\* The satellites (node ids) of the topology, and those that come into the
\* view of some requester.
Sats == {1, 2, 3, 4}
Visible == {1, 2, 4}
Capacities == 0..MaxCapacity
\* hop_to_check: the documented default 1, and a larger threshold
HopToCheckValues == {1, 2}

\* ContentID is an opaque string compared by equality only (spec 3).  The
\* scenarios are run on three IDs: x, y, z of S1 are a, b, c here; v of S2
\* and w of S3 are a.
Contents == {"a", "b", "c"}
FreeContents == {"a", "b"}

S1Batch == <<"a", "b", "a", "c", "b">>
S2Batch == <<"a">>
S3Batch == <<"a">>
S4Batch == <<"a", "b">>
LRUBatch == <<"a", "b", "c", "a">>

RECURSIVE SeqsUpTo(_, _)
SeqsUpTo(S, n) ==
    IF n = 0 THEN {<<>>}
    ELSE LET shorter == SeqsUpTo(S, n - 1)
         IN shorter \cup {Append(q, e) : q \in shorter, e \in S}

\* The request lists a requester may hand to a satellite.  With the
\* requesters run in turn: every short list and the lists of the scenarios.
\* With the requesters run in parallel: three lists on two IDs.
Batches ==
    SeqsUpTo(FreeContents, MaxBatchLen)
        \cup {S1Batch, S2Batch, S3Batch, S4Batch, LRUBatch}

ParBatches == {<<"a">>, <<"b">>, <<"a", "b">>}

\* ------------------------------------------------------ traffic scheduler
\* The requesters of the scheduler (one per config), the satellites each
\* asks the scheduling strategy for (load_balance_count), and the request
\* lists the access generation function may produce.
LoadBalanceCount == <<1, 2>>
NumRequesters == Len(LoadBalanceCount)
Requesters == 1..NumRequesters
Totals == {<<"a">>, <<"a", "b">>}

\* The topology has the satellites in node order, or no satellite at all.
AllSats == <<1, 2, 3, 4>>
SatLists == {<<>>, AllSats}

\* What get_view_up may find above the minimum elevation.
ViewSets == {{}, {1}, {1, 2}}

\* Simulation clock in seconds: start, the end times and the granularities
\* of the configuration (init_TrafficScheduler asserts delta > 0).
StartTime == 0
EndTimes == (0 - 1)..MaxEndTime
Deltas == {1, 2}

\* ------------------------------------------------------ ISL topology file
\* JSON object "satID" -> [next, prev, left, right], ids as strings.
NoNeighbor == "-1"

IntToStr(n) ==
    CASE n = 1 -> "1" [] n = 2 -> "2" [] n = 3 -> "3" [] n = 4 -> "4"
      [] n = 5 -> "5" [] OTHER -> "-1"

StrToInt(t) ==
    CASE t = "1" -> 1 [] t = "2" -> 2 [] t = "3" -> 3 [] t = "4" -> 4
      [] t = "5" -> 5 [] OTHER -> -1

SatKeys == {IntToStr(n) : n \in Sats}

\* 2 x 2 grid: next/prev inside the plane, left/right across planes.
GraphGrid ==
    [k \in SatKeys |->
        CASE k = "1" -> <<"2", "2", "3", "3">>
          [] k = "2" -> <<"1", "1", "4", "4">>
          [] k = "3" -> <<"4", "4", "1", "1">>
          [] OTHER   -> <<"3", "3", "2", "2">>]

\* Path 1 - 2 - 3 - 4 with every slot filled (hop distance 1..4 is 3).
GraphPath ==
    [k \in SatKeys |->
        CASE k = "1" -> <<"2", "2", "2", "2">>
          [] k = "2" -> <<"3", "1", "3", "1">>
          [] k = "3" -> <<"4", "2", "4", "2">>
          [] OTHER   -> <<"3", "3", "3", "3">>]

\* The same path with the unused slots holding the no-neighbour sentinel.
GraphOpen ==
    [k \in SatKeys |->
        CASE k = "1" -> <<"2", NoNeighbor, NoNeighbor, NoNeighbor>>
          [] k = "2" -> <<"3", "1", NoNeighbor, NoNeighbor>>
          [] k = "3" -> <<"4", "2", NoNeighbor, NoNeighbor>>
          [] OTHER   -> <<NoNeighbor, "3", NoNeighbor, NoNeighbor>>]

\* Two disconnected pairs {1,2} and {3,4}.
GraphSplit ==
    [k \in SatKeys |->
        CASE k = "1" -> <<"2", "2", "2", "2">>
          [] k = "2" -> <<"1", "1", "1", "1">>
          [] k = "3" -> <<"4", "4", "4", "4">>
          [] OTHER   -> <<"3", "3", "3", "3">>]

Graphs == {GraphGrid, GraphPath, GraphOpen, GraphSplit}

\* ------------------------------------------------------------------ state
VARIABLES
    cacheCapacity,      \* cache_size of the providers (configuration)
    isl_graph,          \* Topology.__isl_graph
    cache,              \* cache[s]: keys of the OrderedDict, oldest first
    cacheSize,          \* cacheSize[s]: ModelCDNProvider.__cacheSize
    lock,               \* lock[s]: the provider lock is held
    inside,             \* inside[s]: threads between line 169 and the exit
                        \*   of __check_local_cache_only on s
    global_cache,       \* Topology.__global_cache: dict content -> holders
    isl_dist,           \* Topology.__isl_dist: dict source -> dict target -> hops
    topology_lock,      \* set of satellites holding Topology.lock (0 or 1)
    pc,                 \* pc[s]: position of the call on satellite s
    requests,           \* requests[s]: kwargs['requests'] of the call
    hop_to_check,       \* hop_to_check of the traffic scheduler (configuration)
    idx,                \* idx[s]: requests already handled by the for loop
    hits,               \* hits[s]
    downlink_cnt,       \* downlink_cnt[s]
    uplink_cnt,         \* uplink_cnt[s]
    isl_cnt,            \* isl_cnt[s]: [next, prev, left, right]
    error,              \* error[s]: the exception that ended the call, if any
    pre_cache,          \* pre_cache[s]: cache[s] when the call began
    pre_global_cache,   \* pre_global_cache[s]: global_cache when the call began
    admitted,           \* admitted[s]: contents line 240 inserted in this call
    evicted,            \* evicted[s]: contents line 238 popped in this call and
                        \*   line 240 has not inserted again since
    dispatched,         \* calls of handle_requests made so far in the run
    \* the traffic scheduler
    sat_nodes,          \* get_NodesOfAType(SAT): the satellites of the topology
    timestamp,          \* TrafficScheduler.__timestamp (seconds)
    endTimeStamp,       \* TrafficScheduler.__endTimeStamp (configuration)
    timedelta,          \* TrafficScheduler.__timedelta (configuration)
    tpc,                \* position of the thread that runs Execute
    ridx,               \* the requester of the loop of line 318 (1-based)
    hidx,               \* the satellite of the loop of line 323 (1-based)
    views,              \* satellites in view in the last send_requests
    targets,            \* (satellite, requests) pairs line 490 still has to call
    exec_ret,           \* what the last call of Execute returned
    exec_error,         \* the exception that ended the last call of Execute
    ticks,              \* calls of Execute that advanced the time
    hook_calls,         \* call_APIs('post_epoch_hook') made in this tick
    oos_log,            \* oos_log[r]: times of the "Out of service" lines of r
                        \*   in this tick
    send_time,          \* the timestamp argument of the last send_requests
    total_requests,     \* send_requests: the requests generated (line 480)
    targetSatellites,   \* send_requests: what the scheduling strategy
                        \*   returned (line 482)
    calls,              \* the calls of handle_requests line 493 has made in
                        \*   this send_requests: satellite, requests,
                        \*   hop_to_check
    returned_reqs,      \* requesters whose send_requests returned in this tick
    \* the operations called one at a time
    nodes,              \* Topology.__nodes: the nodes in the order added
    nodeIDToNodeMap,    \* Topology.__nodeIDToNodeMap: dict node id -> node
    req_patterns,       \* Requester.__pattern of the requesters constructed
    op,                 \* the operation called last
    args,               \* its arguments
    result              \* what it returned, or the exception it raised

vars ==
    <<cacheCapacity, isl_graph, cache, cacheSize, lock, inside, global_cache,
      isl_dist,
      topology_lock, pc, requests, hop_to_check, idx, hits, downlink_cnt,
      uplink_cnt, isl_cnt, error, pre_cache, pre_global_cache, admitted,
      evicted, dispatched, sat_nodes, timestamp, endTimeStamp, timedelta, tpc,
      ridx, hidx, views, targets, exec_ret, exec_error, ticks, hook_calls,
      oos_log, send_time, total_requests, targetSatellites, calls,
      returned_reqs, nodes, nodeIDToNodeMap, req_patterns, op, args, result>>

\* the registry of nodes, the requesters' patterns and the last operation
\* called on its own: no batch and no tick touches them
unitVars == <<nodes, nodeIDToNodeMap, req_patterns, op, args, result>>

\* the locals of Requester.send_requests
sendVars == <<total_requests, targetSatellites, calls>>

\* the variables of TrafficScheduler.Execute and Requester.send_requests
tickVars ==
    <<sat_nodes, timestamp, endTimeStamp, timedelta, tpc, ridx, hidx, views,
      targets, exec_ret, exec_error, ticks, hook_calls, oos_log, send_time,
      sendVars, returned_reqs>>

cfgVars == <<cacheCapacity, isl_graph, hop_to_check, unitVars>>
\* what no step inside a call of handle_requests changes
runVars ==
    <<cacheCapacity, isl_graph, hop_to_check, dispatched, tickVars, unitVars>>
preVars == <<pre_cache, pre_global_cache>>
histVars == <<admitted, evicted>>
cntVars == <<downlink_cnt, uplink_cnt, isl_cnt>>

EmptyMap == [k \in {} |-> 0]

\* dict assignment d[k] = v
Put(d, k, v) == [j \in DOMAIN d \cup {k} |-> IF j = k THEN v ELSE d[j]]

\* ------------------------------------------------------- pure operations
InSeq(q, e) == \E i \in 1..Len(q) : q[i] = e

RECURSIVE RemoveFirst(_, _)
\* list.remove(e): drops the first occurrence (the caller checks presence)
RemoveFirst(q, e) ==
    IF q = <<>> THEN <<>>
    ELSE IF Head(q) = e THEN Tail(q)
    ELSE <<Head(q)>> \o RemoveFirst(Tail(q), e)

TouchInPlace(c, r) == c

\* lines 193-194: cache.pop(request); cache[request] = True
Touch(c, r) == Append(RemoveFirst(c, r), r)

InsertOldest(c, r) == <<r>> \o c

\* line 240: cache[request] = True on a key that is not in the OrderedDict
Insert(c, r) == Append(c, r)

DropHolderKeep(gc, victim, s) == gc

\* line 239: global_cache[poped].remove(nodeID)
DropHolder(gc, victim, s) == [gc EXCEPT ![victim] = RemoveFirst(@, s)]

CountUplinkNot(n) == n

\* line 204: uplink_cnt += 1
CountUplink(n) == n + 1

FirstHolderTwice(s) == <<s, s>>

\* line 201: the list [self.__ownernode.nodeID]
FirstHolder(s) == <<s>>

\* the holder list a reader of the directory sees for content c
Holders(gc, c) == IF c \in DOMAIN gc THEN gc[c] ELSE <<>>

\* LRU policy: pops the oldest entry, returns it (popitem(last = False))
lruStrategy(c) == [cache |-> Tail(c), poped |-> Head(c)]

CacheSizeKept(n) == n

\* line 235: self.__cacheSize += 1
CacheSizeIncremented(n) == n + 1

HasRoomLeq(size, cap) == size <= cap

\* line 234
HasRoom(size, cap) == size < cap

WithoutTopologyLock(s) == {}

\* line 198: the with statement leaves the lock held by this thread
WithTopologyLock(s) == {s}

TopologyLockFreeAlways(l) == TRUE

\* line 198: the with statement goes on only when no thread holds the
\* topology lock
TopologyLockFree(l) == l = {}

LockNotChecked(l) == TRUE

\* line 169: acquire() goes on only when no thread holds the lock
LockFree(l) == ~l

NoHoldersAbsentOnly(gc, r) == r \notin DOMAIN gc

NoHoldersAlways(gc, r) == TRUE

\* line 199
NoHolders(gc, r) == IF r \notin DOMAIN gc THEN TRUE ELSE Len(gc[r]) <= 0

CurrentRequest(s) == requests[s][idx[s] + 1]

CountTrue(h) == Cardinality({i \in 1..Len(h) : h[i]})

IslSum(c) == c[1] + c[2] + c[3] + c[4]

\* lines 246-247
SanityHolds(s) ==
    /\ Len(requests[s]) = downlink_cnt[s]
    /\ CountTrue(hits[s]) = downlink_cnt[s] - uplink_cnt[s] - IslSum(isl_cnt[s])

\* ----------------------------------------------------- Topology.get_ISL_dist
RECURSIVE ScanNeighbors(_, _, _, _, _)
\* lines 127-130
ScanNeighbors(nbrs, i, d, visited, queue) ==
    IF i > Len(nbrs) THEN [visited |-> visited, queue |-> queue]
    ELSE IF nbrs[i] \in visited THEN ScanNeighbors(nbrs, i + 1, d, visited, queue)
    ELSE ScanNeighbors(nbrs, i + 1, d, visited \cup {nbrs[i]},
                       Append(queue, <<nbrs[i], d + 1>>))

RECURSIVE BFSLoop(_, _, _, _)
\* lines 121-130; raised: KeyError at isl_graph[current_node]
BFSLoop(graph, queue, visited, tbl) ==
    IF queue = <<>> THEN [tbl |-> tbl, raised |-> FALSE]
    ELSE LET node == queue[1][1]
             d    == queue[1][2]
             tbl2 == Put(tbl, StrToInt(node), d)
         IN IF node \notin DOMAIN graph
            THEN [tbl |-> tbl2, raised |-> TRUE]
            ELSE LET r == ScanNeighbors(graph[node], 1, d, visited, Tail(queue))
                 IN BFSLoop(graph, r.queue, r.visited, tbl2)

\* lines 110-131; raised: KeyError in the BFS or at isl_dist[nodeFrom][nodeTo]
get_ISL_dist(dist, graph, nodeFrom, nodeTo) ==
    IF nodeFrom \in DOMAIN dist
    THEN [isl_dist |-> dist,
          raised   |-> nodeTo \notin DOMAIN dist[nodeFrom],
          ret      |-> IF nodeTo \in DOMAIN dist[nodeFrom]
                       THEN dist[nodeFrom][nodeTo] ELSE -1]
    ELSE LET b  == BFSLoop(graph, <<<<IntToStr(nodeFrom), 0>>>>,
                           {IntToStr(nodeFrom)}, EmptyMap)
             d2 == Put(dist, nodeFrom, b.tbl)
         IN [isl_dist |-> d2,
             raised   |-> b.raised \/ nodeTo \notin DOMAIN b.tbl,
             ret      |-> IF ~b.raised /\ nodeTo \in DOMAIN b.tbl
                          THEN b.tbl[nodeTo] ELSE -1]

RECURSIVE MinHop(_, _, _)
\* lines 136-139
MinHop(tbl, holders, acc) ==
    IF holders = <<>> THEN acc
    ELSE MinHop(tbl, Tail(holders),
                IF tbl[Head(holders)] < acc THEN tbl[Head(holders)] ELSE acc)

\* lines 133-140: returns min_hop alone (an int); raised: KeyError
get_shortest_replica(dist, graph, gc, nodeFrom, request) ==
    LET g == IF nodeFrom \notin DOMAIN dist
             THEN get_ISL_dist(dist, graph, nodeFrom, nodeFrom)
             ELSE [isl_dist |-> dist, raised |-> FALSE, ret |-> 0]
        tbl == g.isl_dist[nodeFrom]
        missing == \E i \in 1..Len(gc[request]) : gc[request][i] \notin DOMAIN tbl
    IN [isl_dist |-> g.isl_dist,
        raised   |-> g.raised \/ missing,
        ret      |-> IF g.raised \/ missing THEN -1
                     ELSE MinHop(tbl, gc[request], 100000)]

\* ------------------------------------------------------------------ Init
\* ModelCDNProvider.__init__ of every satellite and Topology.__init__
InitProviders ==
    /\ cacheCapacity \in Capacities
    /\ isl_graph \in Graphs
    /\ cache = [s \in Sats |-> <<>>]
    /\ cacheSize = [s \in Sats |-> 0]
    /\ lock = [s \in Sats |-> FALSE]
    /\ inside = [s \in Sats |-> 0]
    /\ global_cache = EmptyMap
    /\ isl_dist = EmptyMap
    /\ topology_lock = {}
    /\ pc = [s \in Sats |-> "idle"]
    /\ requests = [s \in Sats |-> <<>>]
    /\ hop_to_check \in HopToCheckValues
    /\ idx = [s \in Sats |-> 0]
    /\ hits = [s \in Sats |-> <<>>]
    /\ downlink_cnt = [s \in Sats |-> 0]
    /\ uplink_cnt = [s \in Sats |-> 0]
    /\ isl_cnt = [s \in Sats |-> <<0, 0, 0, 0>>]
    /\ error = [s \in Sats |-> "none"]
    /\ pre_cache = [s \in Sats |-> <<>>]
    /\ pre_global_cache = [s \in Sats |-> EmptyMap]
    /\ admitted = [s \in Sats |-> {}]
    /\ evicted = [s \in Sats |-> {}]
    /\ dispatched = 0

\* TrafficScheduler.__init__: the clock at the start time, no call of Execute
\* made yet
\* Topology.__init__ lines 193-194, TrafficScheduler.__init__ line 256: no
\* node, no requester; no operation has been called
InitUnits ==
    /\ nodes = <<>>
    /\ nodeIDToNodeMap = EmptyMap
    /\ req_patterns = <<>>
    /\ op = "none"
    /\ args = <<>>
    /\ result = <<>>

InitScheduler(satellites, tEnd, delta) ==
    /\ sat_nodes = satellites
    /\ timestamp = StartTime
    /\ endTimeStamp = tEnd
    /\ timedelta = delta
    /\ tpc = "ready"
    /\ ridx = 0
    /\ hidx = 0
    /\ views = {}
    /\ targets = <<>>
    /\ exec_ret = "none"
    /\ exec_error = "none"
    /\ ticks = 0
    /\ hook_calls = 0
    /\ oos_log = [r \in Requesters |-> <<>>]
    /\ send_time = StartTime
    /\ total_requests = <<>>
    /\ targetSatellites = <<>>
    /\ calls = <<>>
    /\ InitUnits
    /\ returned_reqs = {}

\* The calls of handle_requests are studied with the scheduler left as it
\* is constructed.
Init == InitProviders /\ InitScheduler(AllSats, MaxEndTime, 1)

\* --------------------------------------------------------------- actions
\* call_APIs('handle_requests', requests=..., hop_to_check=...) up to line 188:
\* the provider lock is acquired and the locals are initialised.
BeginBatch(s, reqs) ==
    /\ LockFree(lock[s])
    /\ dispatched < MaxDispatch
    /\ dispatched' = dispatched + 1
    /\ lock' = [lock EXCEPT ![s] = TRUE]
    /\ inside' = [inside EXCEPT ![s] = @ + 1]
    /\ pc' = [pc EXCEPT ![s] = "loop"]
    /\ requests' = [requests EXCEPT ![s] = reqs]
    /\ idx' = [idx EXCEPT ![s] = 0]
    /\ hits' = [hits EXCEPT ![s] = <<>>]
    /\ downlink_cnt' = [downlink_cnt EXCEPT ![s] = 0]
    /\ uplink_cnt' = [uplink_cnt EXCEPT ![s] = 0]
    /\ isl_cnt' = [isl_cnt EXCEPT ![s] = <<0, 0, 0, 0>>]
    /\ pre_cache' = [pre_cache EXCEPT ![s] = cache[s]]
    /\ pre_global_cache' = [pre_global_cache EXCEPT ![s] = global_cache]
    /\ admitted' = [admitted EXCEPT ![s] = {}]
    /\ evicted' = [evicted EXCEPT ![s] = {}]
    /\ UNCHANGED <<cfgVars, cache, cacheSize, global_cache, isl_dist,
                   topology_lock, error>>

\* lines 191-195, 243: cache hit
Hit(s) ==
    /\ pc[s] = "loop"
    /\ idx[s] < Len(requests[s])
    /\ InSeq(cache[s], CurrentRequest(s))
    /\ cache' = [cache EXCEPT ![s] = Touch(cache[s], CurrentRequest(s))]
    /\ hits' = [hits EXCEPT ![s] = Append(hits[s], TRUE)]
    /\ downlink_cnt' = [downlink_cnt EXCEPT ![s] = downlink_cnt[s] + 1]
    /\ idx' = [idx EXCEPT ![s] = idx[s] + 1]
    /\ UNCHANGED <<runVars, cacheSize, lock, inside, global_cache, isl_dist,
                   topology_lock, pc, requests, uplink_cnt,
                   isl_cnt, error, preVars, histVars>>

\* line 198: local miss, the topology lock is acquired
AcquireTopology(s) ==
    /\ pc[s] = "loop"
    /\ idx[s] < Len(requests[s])
    /\ ~InSeq(cache[s], CurrentRequest(s))
    /\ TopologyLockFree(topology_lock)
    /\ topology_lock' = WithTopologyLock(s)
    /\ pc' = [pc EXCEPT ![s] = "consult"]
    /\ UNCHANGED <<runVars, cache, cacheSize, lock, inside, global_cache, isl_dist,
                   requests, idx, hits, cntVars, error, preVars, histVars>>

\* lines 199-204: no holder, this satellite becomes the only one
NoHolder(s) ==
    /\ pc[s] = "consult"
    /\ NoHolders(global_cache, CurrentRequest(s))
    /\ global_cache' = Put(global_cache, CurrentRequest(s), FirstHolder(s))
    /\ uplink_cnt' = [uplink_cnt EXCEPT ![s] = CountUplink(uplink_cnt[s])]
    /\ pc' = [pc EXCEPT ![s] = "admit"]
    /\ UNCHANGED <<runVars, cache, cacheSize, lock, inside, isl_dist, topology_lock,
                   requests, idx, hits, downlink_cnt, isl_cnt,
                   error, preVars, histVars>>

\* The frame of the call is left (return or exception): its arguments and
\* locals are gone.
DropFrame(s) ==
    /\ requests' = [requests EXCEPT ![s] = <<>>]
    /\ idx' = [idx EXCEPT ![s] = 0]
    /\ hits' = [hits EXCEPT ![s] = <<>>]
    /\ downlink_cnt' = [downlink_cnt EXCEPT ![s] = 0]
    /\ uplink_cnt' = [uplink_cnt EXCEPT ![s] = 0]
    /\ isl_cnt' = [isl_cnt EXCEPT ![s] = <<0, 0, 0, 0>>]
    /\ pre_cache' = [pre_cache EXCEPT ![s] = <<>>]
    /\ pre_global_cache' = [pre_global_cache EXCEPT ![s] = EmptyMap]
    /\ admitted' = [admitted EXCEPT ![s] = {}]
    /\ evicted' = [evicted EXCEPT ![s] = {}]

\* lines 205-219: some satellite holds the content (remote hit).  Line 218
\* asks the hop distance to the holder the for loop of line 210 ended on (the
\* last one of the list); line 219 unpacks the result of get_shortest_replica
\* into (shortest_hop, shortest_neighbor), but that result is one int, so the
\* unpacking raises TypeError.  Lines 220-232 are never reached.  The with
\* statement releases the topology lock; the provider lock stays held.
\* The positions read in lines 211-214 come from the orbit model and change
\* no state.  isl_hop is the value line 218 appends to
\* missed_but_in_sky_isl_hop.  On an empty holder list the loop of line 210
\* leaves dist empty and dist[:, 0] of line 216 raises IndexError.
RemoteHitOutcome(dist, graph, gc, s, r) ==
    LET holders == gc[r]
        last == holders[Len(holders)]
        d1 == get_ISL_dist(dist, graph, s, last)
        sr == get_shortest_replica(d1.isl_dist, graph, gc, s, r)
    IN IF holders = <<>>
       THEN [isl_dist |-> dist, error |-> "IndexError", isl_hop |-> -1]
       ELSE IF d1.raised
       THEN [isl_dist |-> d1.isl_dist, error |-> "KeyError",
             isl_hop |-> d1.ret]
       ELSE IF sr.raised
       THEN [isl_dist |-> sr.isl_dist, error |-> "KeyError",
             isl_hop |-> d1.ret]
       ELSE [isl_dist |-> sr.isl_dist, error |-> "TypeError",
             isl_hop |-> d1.ret]

RemoteHit(s) ==
    /\ pc[s] = "consult"
    /\ ~NoHolders(global_cache, CurrentRequest(s))
    /\ LET o == RemoteHitOutcome(isl_dist, isl_graph, global_cache, s,
                                 CurrentRequest(s))
       IN /\ isl_dist' = o.isl_dist
          /\ error' = [error EXCEPT ![s] = o.error]
    /\ pc' = [pc EXCEPT ![s] = "raised"]
    /\ topology_lock' = {}
    /\ DropFrame(s)
    /\ inside' = [inside EXCEPT ![s] = @ - 1]
    /\ UNCHANGED <<runVars, cache, cacheSize, lock, global_cache>>

\* line 238-239 can be carried out: there is a victim and it lists s
CanEvict(c, gc, s) ==
    /\ c # <<>>
    /\ Head(c) \in DOMAIN gc
    /\ InSeq(gc[Head(c)], s)

\* lines 234-243 and the end of the with block: admission of the missed
\* content, with an eviction when the size counter has reached the capacity
Admit(s) ==
    /\ pc[s] = "admit"
    /\ IF HasRoom(cacheSize[s], cacheCapacity)
       THEN /\ cacheSize' = [cacheSize EXCEPT ![s] =
                                    CacheSizeIncremented(cacheSize[s])]
            /\ cache' = [cache EXCEPT ![s] = Insert(cache[s], CurrentRequest(s))]
            /\ evicted' = [evicted EXCEPT ![s] = @ \ {CurrentRequest(s)}]
            /\ UNCHANGED global_cache
       ELSE /\ CanEvict(cache[s], global_cache, s)
            /\ LET e == lruStrategy(cache[s])
               IN /\ global_cache' = DropHolder(global_cache, e.poped, s)
                  /\ cache' = [cache EXCEPT ![s] = Insert(e.cache, CurrentRequest(s))]
                  /\ evicted' = [evicted EXCEPT ![s] =
                                    (@ \cup {e.poped}) \ {CurrentRequest(s)}]
            /\ UNCHANGED cacheSize
    /\ admitted' = [admitted EXCEPT ![s] = @ \cup {CurrentRequest(s)}]
    /\ hits' = [hits EXCEPT ![s] = Append(hits[s], FALSE)]
    /\ downlink_cnt' = [downlink_cnt EXCEPT ![s] = downlink_cnt[s] + 1]
    /\ idx' = [idx EXCEPT ![s] = idx[s] + 1]
    /\ topology_lock' = {}
    /\ pc' = [pc EXCEPT ![s] = "loop"]
    /\ UNCHANGED <<runVars, lock, inside, isl_dist, requests, 
                   uplink_cnt, isl_cnt, error, preVars>>

\* lines 238-239 raise: popitem on an empty cache (KeyError), a victim that is
\* no key of the directory (KeyError) or whose list lacks s (ValueError).  In
\* the last two cases the victim has already left the cache.
AdmitRaise(s) ==
    /\ pc[s] = "admit"
    /\ ~HasRoom(cacheSize[s], cacheCapacity)
    /\ ~CanEvict(cache[s], global_cache, s)
    /\ IF cache[s] = <<>>
       THEN /\ error' = [error EXCEPT ![s] = "KeyError"]
            /\ UNCHANGED cache
       ELSE /\ cache' = [cache EXCEPT ![s] = lruStrategy(cache[s]).cache]
            /\ error' = [error EXCEPT ![s] =
                            IF Head(cache[s]) \in DOMAIN global_cache
                            THEN "ValueError" ELSE "KeyError"]
    /\ pc' = [pc EXCEPT ![s] = "raised"]
    /\ topology_lock' = {}
    /\ DropFrame(s)
    /\ inside' = [inside EXCEPT ![s] = @ - 1]
    /\ UNCHANGED <<runVars, cacheSize, lock, global_cache, isl_dist>>

\* lines 244-256: the sanity assertions, the log lines, the release of the
\* provider lock and the return of hits
Finish(s) ==
    /\ pc[s] = "loop"
    /\ idx[s] = Len(requests[s])
    /\ IF SanityHolds(s)
       THEN /\ pc' = [pc EXCEPT ![s] = "returned"]
            /\ lock' = [lock EXCEPT ![s] = FALSE]
            /\ UNCHANGED <<error, requests, idx, hits, cntVars,
                           preVars, histVars>>
       ELSE /\ pc' = [pc EXCEPT ![s] = "raised"]
            /\ error' = [error EXCEPT ![s] = "AssertionError"]
            /\ DropFrame(s)
            /\ UNCHANGED lock
    /\ inside' = [inside EXCEPT ![s] = @ - 1]
    /\ UNCHANGED <<runVars, cache, cacheSize, global_cache, isl_dist,
                   topology_lock>>

\* Requester.send_requests, lines 493-494: the caller has the hits, logs
\* them and drops the call
Return(s) ==
    /\ pc[s] = "returned"
    /\ pc' = [pc EXCEPT ![s] = "idle"]
    /\ DropFrame(s)
    /\ UNCHANGED <<runVars, cache, cacheSize, lock, inside, global_cache, isl_dist,
                   topology_lock, error>>

\* ------------------------------------------- TrafficScheduler.Execute
\* the variables of the providers and of the topology
provVars ==
    <<unitVars, cacheCapacity, isl_graph, cache, cacheSize, lock, inside, global_cache,
      isl_dist, topology_lock, pc, requests, hop_to_check, idx, hits,
      downlink_cnt, uplink_cnt, isl_cnt, error, pre_cache, pre_global_cache,
      admitted, evicted, dispatched>>

\* what an operation called on its own leaves alone: the providers, the
\* calls in progress and the scheduler
callVars ==
    <<cacheCapacity, cache, cacheSize, lock, inside, topology_lock, pc,
      requests, hop_to_check, idx, hits, downlink_cnt, uplink_cnt, isl_cnt,
      error, pre_cache, pre_global_cache, admitted, evicted, dispatched,
      tickVars>>

\* what a step inside send_requests leaves alone in the scheduler
clockVars ==
    <<sat_nodes, timestamp, endTimeStamp, timedelta, exec_ret, ticks,
      hook_calls>>

Min(a, b) == IF a <= b THEN a ELSE b

ArraySplitLate(q, k) ==
    LET base == Len(q) \div k
        r == Len(q) % k
        start(i) == IF i <= k - r THEN (i - 1) * base
                    ELSE (k - r) * base + (i - 1 - (k - r)) * (base + 1)
        size(i) == IF i <= k - r THEN base ELSE base + 1
    IN [i \in 1..k |-> SubSeq(q, start(i) + 1, start(i) + size(i))]

\* np.array_split(q, k), k >= 1: the first Len(q) % k parts have
\* Len(q) \div k + 1 elements, the others Len(q) \div k
ArraySplit(q, k) ==
    LET q1 == Len(q) \div k + 1
        r == Len(q) % k
        start(i) == IF i <= r THEN (i - 1) * q1
                    ELSE r * q1 + (i - 1 - r) * (Len(q) \div k)
        size(i) == IF i <= r THEN q1 ELSE Len(q) \div k
    IN [i \in 1..k |-> SubSeq(q, start(i) + 1, start(i) + size(i))]

\* the sequences of n distinct members of the set v
Arrangements(v, n) ==
    {q \in [1..n -> v] : \A i, j \in 1..n : i # j => q[i] # q[j]}

\* utils.py line 102: how many elements the slice [-min(n, len):] keeps of a
\* list of len >= 1 elements; -0 is 0, and the slice [0:] is the whole list
TopCount(n, len) == IF Min(n, len) = 0 THEN len ELSE Min(n, len)

OutOfServiceNever(v) == FALSE

\* utils.py line 98: get_view_up found nothing above the minimum elevation
OutOfService(v) == v = {}

\* schduleLargestElevation, utils.py lines 96-104: None, or the min(n, |v|)
\* satellites of largest elevation in ascending order of elevation; the
\* elevations come from the orbit model, so every arrangement is possible
schduleLargestElevation(v, n) ==
    IF OutOfService(v) THEN {[none |-> TRUE, sats |-> <<>>]}
    ELSE {[none |-> FALSE, sats |-> q] :
            q \in Arrangements(v, TopCount(n, Cardinality(v)))}

\* the views of a topology with these satellites
ViewsOf(satellites) ==
    {v \in ViewSets :
        \A s \in v : \E i \in 1..Len(satellites) : satellites[i] = s}

LoopDoneEarly(i) == i >= NumRequesters

\* line 318: the for loop over the requesters has run out
LoopDone(i) == i > NumRequesters

\* no call of handle_requests is in progress: the thread of Execute is in
\* send_requests itself
TickQuiet == \A t \in Sats : pc[t] = "idle"

\* Time.add_seconds: the time d seconds after t
add_seconds(t, d) == t + d

InRunStrict(t, tEnd) == t < tEnd

\* Execute, line 303: the run is not over
InRun(t, tEnd) == t <= tEnd

\* Execute, lines 286-305 with timestamp <= endTimeStamp: the clock advances
\* by the granularity and the loop over the requesters begins
ExecuteTick ==
    /\ tpc \in {"ready", "aborted"}
    /\ InRun(timestamp, endTimeStamp)
    /\ timestamp' = add_seconds(timestamp, timedelta)
    /\ ticks' = ticks + 1
    /\ tpc' = "send"
    /\ ridx' = 1
    /\ hidx' = 0
    /\ views' = {}
    /\ targets' = <<>>
    /\ exec_ret' = "none"
    /\ exec_error' = "none"
    /\ hook_calls' = 0
    /\ oos_log' = [r \in Requesters |-> <<>>]
    /\ returned_reqs' = {}
    /\ UNCHANGED <<provVars, sat_nodes, endTimeStamp, timedelta, send_time,
                   sendVars>>

\* Execute, lines 286-303 and 328 with timestamp > endTimeStamp: returns
\* False
ExecuteOver ==
    /\ tpc \in {"ready", "aborted"}
    /\ ~InRun(timestamp, endTimeStamp)
    /\ exec_ret' = "False"
    /\ exec_error' = "none"
    /\ tpc' = "ready"
    /\ UNCHANGED <<provVars, sat_nodes, timestamp, endTimeStamp, timedelta,
                   ridx, hidx, views, targets, ticks, hook_calls, oos_log,
                   send_time, sendVars, returned_reqs>>

\* send_requests, lines 480-489: the requests are generated, the satellites
\* scheduled; with none in view one line is logged and the call returns,
\* otherwise the requests are split among the scheduled satellites
SendRequests(r) ==
    /\ tpc = "send"
    /\ ridx = r
    /\ \E total \in Totals, v \in ViewsOf(sat_nodes) :
        \E ret \in schduleLargestElevation(v, LoadBalanceCount[r]) :
            /\ views' = v
            /\ send_time' = timestamp
            /\ calls' = <<>>
            /\ IF ret.none
               THEN /\ oos_log' = [oos_log EXCEPT ![r] = Append(@, timestamp)]
                    /\ returned_reqs' = returned_reqs \cup {r}
                    /\ ridx' = r + 1
                    /\ total_requests' = <<>>
                    /\ targetSatellites' = <<>>
                    /\ UNCHANGED <<tpc, targets, exec_error>>
               ELSE IF Len(ret.sats) = 0
               THEN /\ tpc' = "aborted"
                    /\ exec_error' = "ValueError"
                    /\ total_requests' = <<>>
                    /\ targetSatellites' = <<>>
                    /\ UNCHANGED <<oos_log, returned_reqs, ridx, targets>>
               ELSE /\ total_requests' = total
                    /\ targetSatellites' = ret.sats
                    /\ targets' =
                          LET parts == ArraySplit(total, Len(ret.sats))
                          IN [i \in 1..Len(ret.sats) |->
                                [sat |-> ret.sats[i], reqs |-> parts[i]]]
                    /\ tpc' = "calls"
                    /\ UNCHANGED <<oos_log, returned_reqs, ridx, exec_error>>
    /\ UNCHANGED <<provVars, clockVars, hidx>>

\* send_requests, line 493: handle_requests is called on the next scheduled
\* satellite with its share of the requests
CallTarget ==
    /\ tpc = "calls"
    /\ targets # <<>>
    /\ TickQuiet
    /\ BeginBatch(Head(targets).sat, Head(targets).reqs)
    /\ targets' = Tail(targets)
    /\ calls' = Append(calls, [sat |-> Head(targets).sat,
                               requests |-> Head(targets).reqs,
                               hop_to_check |-> hop_to_check])
    /\ UNCHANGED <<clockVars, tpc, ridx, hidx, views, exec_error, oos_log,
                   send_time, total_requests, targetSatellites,
                   returned_reqs>>

\* an exception raised inside handle_requests leaves call_APIs (no handler,
\* lines 115-119), send_requests (its locals are gone) and Execute
Propagate(s) ==
    /\ tpc = "calls"
    /\ pc[s] = "raised"
    /\ pc' = [pc EXCEPT ![s] = "idle"]
    /\ tpc' = "aborted"
    /\ exec_error' = error[s]
    /\ total_requests' = <<>>
    /\ targetSatellites' = <<>>
    /\ calls' = <<>>
    /\ UNCHANGED <<unitVars, cacheCapacity, isl_graph, cache, cacheSize, lock,
                   inside,
                   global_cache, isl_dist, topology_lock, requests,
                   hop_to_check, idx, hits, cntVars, error, preVars, histVars,
                   dispatched, clockVars, ridx, hidx, views, targets, oos_log, send_time,
                   returned_reqs>>

\* send_requests: the loop of line 490 is over, the call returns to line 318
SendRequestsReturn ==
    /\ tpc = "calls"
    /\ targets = <<>>
    /\ TickQuiet
    /\ returned_reqs' = returned_reqs \cup {ridx}
    /\ ridx' = ridx + 1
    /\ tpc' = "send"
    /\ total_requests' = <<>>
    /\ targetSatellites' = <<>>
    /\ calls' = <<>>
    /\ UNCHANGED <<provVars, clockVars, hidx, views, targets, exec_error,
                   oos_log, send_time>>

\* Execute, lines 321-323: the loop over the requesters is over, the
\* satellites are fetched for the post hook
EnterHooks ==
    /\ tpc = "send"
    /\ LoopDone(ridx)
    /\ tpc' = "hook"
    /\ hidx' = 1
    /\ UNCHANGED <<provVars, clockVars, ridx, views, targets, exec_error,
                   oos_log, send_time, sendVars, returned_reqs>>

\* the dispatch table of ModelCDNProvider, lines 261-263
apiHandlerDictionary == {"handle_requests"}

\* call_APIs, lines 113-120: the handler is looked up in the table; a name
\* that is no key raises KeyError (the try/except of lines 115-118 is
\* commented out)
call_APIs(apiName) ==
    IF apiName \in apiHandlerDictionary THEN "handled" ELSE "KeyError"

PostEpochHookEvicts(s) ==
    /\ tpc = "hook"
    /\ hidx <= Len(sat_nodes)
    /\ s = sat_nodes[hidx]
    /\ hook_calls' = hook_calls + 1
    /\ cache' = [cache EXCEPT ![s] = <<>>]
    /\ hidx' = hidx + 1
    /\ UNCHANGED <<unitVars, cacheCapacity, isl_graph, cacheSize, lock, inside,
                   global_cache, isl_dist, topology_lock, pc, requests,
                   hop_to_check, idx, hits, cntVars, error, preVars, histVars,
                   dispatched, sat_nodes, timestamp, endTimeStamp, timedelta,
                   tpc, ridx, views, targets, exec_ret, exec_error, ticks,
                   oos_log, send_time, sendVars, returned_reqs>>

\* Execute, line 324: call_APIs('post_epoch_hook') on the provider of the
\* next satellite
PostEpochHook(s) ==
    /\ tpc = "hook"
    /\ hidx <= Len(sat_nodes)
    /\ s = sat_nodes[hidx]
    /\ hook_calls' = hook_calls + 1
    /\ IF call_APIs("post_epoch_hook") = "KeyError"
       THEN /\ tpc' = "aborted"
            /\ exec_error' = "KeyError"
            /\ UNCHANGED hidx
       ELSE /\ hidx' = hidx + 1
            /\ UNCHANGED <<tpc, exec_error>>
    /\ UNCHANGED <<provVars, sat_nodes, timestamp, endTimeStamp, timedelta,
                   ridx, views, targets, exec_ret, ticks, oos_log, send_time,
                   sendVars, returned_reqs>>

\* Execute, lines 326-328: the hooks are over, Execute returns True
ExecuteReturn ==
    /\ tpc = "hook"
    /\ hidx > Len(sat_nodes)
    /\ exec_ret' = "True"
    /\ tpc' = "ready"
    /\ UNCHANGED <<provVars, sat_nodes, timestamp, endTimeStamp, timedelta,
                   ridx, hidx, views, targets, exec_error, ticks, hook_calls,
                   oos_log, send_time, sendVars, returned_reqs>>

\* ------------------------------------------------------- specifications
\* The requesters run on parallel workers: a call may start on any satellite
\* whose provider lock is free, whatever the other satellites are doing.
Dispatch ==
    /\ \E s \in Visible, reqs \in ParBatches : BeginBatch(s, reqs)
    /\ UNCHANGED tickVars

\* TrafficScheduler.Execute, lines 318-319: the requesters run one after the
\* other, so a batch starts only when no call is in progress, and an
\* exception that left a call ends the run.
NoCallInProgress == \A t \in Sats : pc[t] = "idle"

DispatchSeq ==
    /\ NoCallInProgress
    /\ \E s \in Visible, reqs \in Batches : BeginBatch(s, reqs)
    /\ UNCHANGED tickVars

\* the steps of the thread that runs the call on s
Call(s) ==
    \/ Hit(s)
    \/ AcquireTopology(s)
    \/ NoHolder(s)
    \/ RemoteHit(s)
    \/ Admit(s)
    \/ AdmitRaise(s)
    \/ Finish(s)
    \/ Return(s)

Step == \E s \in Sats : Call(s)

Next == Dispatch \/ Step

NextSeq == DispatchSeq \/ Step

Spec == Init /\ [][Next]_vars

\* The run of the traffic scheduler: Execute is called again and again, its
\* requesters call handle_requests on the satellites they schedule.
InitTick ==
    /\ InitProviders
    /\ \E satellites \in SatLists, tEnd \in EndTimes, delta \in Deltas :
          InitScheduler(satellites, tEnd, delta)

NextTick ==
    \/ ExecuteTick
    \/ ExecuteOver
    \/ \E r \in Requesters : SendRequests(r)
    \/ CallTarget
    \/ \E s \in Sats : Propagate(s)
    \/ SendRequestsReturn
    \/ EnterHooks
    \/ \E s \in Sats : PostEpochHook(s)
    \/ ExecuteReturn
    \/ Step

SpecTick == InitTick /\ [][NextTick]_vars

SpecSeq == Init /\ [][NextSeq]_vars

\* ------------------------------------------- the requester's operations
\* Requester.send_requests builds on three operations; here each is called on
\* its own with every argument of a bounded set.

\* the caller has the result of the operation: the next one can be called
ReturnCall ==
    /\ op # "none"
    /\ op' = "none"
    /\ args' = <<>>
    /\ result' = <<>>
    /\ UNCHANGED <<callVars, isl_graph, isl_dist, global_cache, nodes,
                   nodeIDToNodeMap, req_patterns>>

\* the list total_requests of n requests: the i-th request generated is i
RequestList(n) == [i \in 1..n |-> i]

\* send_requests, line 489, for a list of n requests and k scheduled
\* satellites
ArraySplitCall ==
    /\ op = "none"
    /\ \E n \in 0..MaxSplitLen, k \in 1..MaxSplitSats :
          /\ op' = "array_split"
          /\ args' = <<RequestList(n), k>>
          /\ result' = ArraySplit(RequestList(n), k)
    /\ UNCHANGED <<callVars, isl_graph, isl_dist, global_cache, nodes,
                   nodeIDToNodeMap, req_patterns>>

\* the elevations (degrees) a satellite in view may have: get_view_up keeps
\* those at or above min_elevation = 25
Elevations == {25, 40, 60}

\* what get_view_up may return: up to MaxViews rows [nodeID, elevation] of
\* different satellites, in node order or any other
ViewLists ==
    UNION {{[i \in 1..m |-> <<ids[i], el[i]>>] :
                ids \in Arrangements(Sats, m), el \in [1..m -> Elevations]} :
           m \in 1..MaxViews}

\* np.argsort(views, axis = 0)[:, 1], utils.py line 101: the row indices in
\* ascending order of elevation; rows of equal elevation come in the order
\* the sort leaves them
ArgSorts(rows) ==
    {p \in Arrangements(1..Len(rows), Len(rows)) :
        \A i, j \in 1..Len(rows) : i < j => rows[p[i]][2] <= rows[p[j]][2]}

TopIdxLowest(p, n) == SubSeq(p, 1, TopCount(n, Len(p)))

\* utils.py line 102: top_idx[-min(num_to_schedule, len(views)):]
TopIdx(p, n) == SubSeq(p, Len(p) - TopCount(n, Len(p)) + 1, Len(p))

\* utils.py lines 100-104 on the rows of a non-empty view: the nodes of the
\* selected rows, in the order of top_idx
ScheduleRows(rows, n) ==
    {[i \in 1..Len(TopIdx(p, n)) |-> rows[TopIdx(p, n)[i]][1]] :
        p \in ArgSorts(rows)}

\* schduleLargestElevation for a requester that sees the rows and asks for
\* n satellites
ScheduleCall ==
    /\ op = "none"
    /\ \E rows \in ViewLists, n \in 0..MaxSchedule :
          \E sel \in ScheduleRows(rows, n) :
            /\ op' = "schduleLargestElevation"
            /\ args' = <<rows, n>>
            /\ result' = sel
    /\ UNCHANGED <<callVars, isl_graph, isl_dist, global_cache, nodes,
                   nodeIDToNodeMap, req_patterns>>

\* Access-pattern files: ContentID -> probability, in hundredths.  One sums
\* to 1, one falls short of it, one exceeds it.
PatternOne == [c \in FreeContents |-> 50]
PatternShort == [c \in FreeContents |-> IF c = "a" THEN 60 ELSE 30]
PatternOver == [c \in FreeContents |-> IF c = "a" THEN 70 ELSE 40]
Patterns == {PatternOne, PatternShort, PatternOver}

RECURSIVE SumOver(_, _)
SumOver(f, S) ==
    IF S = {} THEN 0
    ELSE LET x == CHOOSE y \in S : TRUE IN f[x] + SumOver(f, S \ {x})

\* the sum of the probabilities of a pattern
PatternSum(p) == SumOver(p, DOMAIN p)

\* np.random.choice(..., p = ...) accepts the probabilities: they sum to 1
SumsToOne(p) == PatternSum(p) = 100

\* TrafficScheduler.__init__, lines 259-274: the pattern file is loaded and
\* handed to the new Requester, which stores it (line 473)
ConstructRequester(p) ==
    /\ op = "none"
    /\ req_patterns = <<>>
    /\ req_patterns' = <<p>>
    /\ op' = "Requester"
    /\ args' = <<p>>
    /\ result' = <<>>
    /\ UNCHANGED <<callVars, isl_graph, isl_dist, global_cache, nodes,
                   nodeIDToNodeMap>>

\* generateByDistribution, called at send_requests line 480 with
\* probOneHitter = 0: np.random.choice draws numToGen keys of the pattern, or
\* raises ValueError when the probabilities do not sum to 1
GenerateCall ==
    /\ op = "none"
    /\ req_patterns # <<>>
    /\ \E numToGen \in 0..MaxGen :
        LET pattern == req_patterns[1] IN
          /\ op' = "generateByDistribution"
          /\ args' = <<pattern, numToGen>>
          /\ IF SumsToOne(pattern)
             THEN \E drawn \in [1..numToGen ->
                                 {c \in DOMAIN pattern : pattern[c] > 0}] :
                     result' = [raised |-> "none", ret |-> drawn]
             ELSE result' = [raised |-> "ValueError", ret |-> <<>>]
    /\ UNCHANGED <<callVars, isl_graph, isl_dist, global_cache, nodes,
                   nodeIDToNodeMap, req_patterns>>

InitRequester ==
    /\ InitProviders
    /\ InitScheduler(AllSats, MaxEndTime, 1)
    /\ cacheCapacity = MaxCapacity
    /\ isl_graph = GraphGrid
    /\ hop_to_check = 1

NextRequester ==
    \/ ArraySplitCall
    \/ ScheduleCall
    \/ \E p \in Patterns : ConstructRequester(p)
    \/ GenerateCall
    \/ ReturnCall

SpecRequester == InitRequester /\ [][NextRequester]_vars

\* ------------------------------------------- the topology's operations
\* The methods of Topology, each called on its own with every argument, on
\* the ISL graph of the file and on the directory as the providers write it.

\* the node ids of the configuration, and the node objects: two objects are
\* told apart by the position at which add_Node received them
NodeIds == {1, 2}
NoNode == [nodeID |-> 0 - 1, serial |-> 0]

RegisteredNever(map, id) == FALSE

\* topology.py line 75, negated: the id is a key of the map
Registered(map, id) == id \in DOMAIN map

\* Topology.add_Node, lines 73-78, with a node that is not None
AddNodeCall ==
    /\ op = "none"
    /\ Len(nodes) < MaxNodes
    /\ \E id \in NodeIds :
        LET node == [nodeID |-> id, serial |-> Len(nodes) + 1] IN
          /\ nodes' = Append(nodes, node)
          /\ op' = "add_Node"
          /\ args' = <<node>>
          /\ IF ~Registered(nodeIDToNodeMap, id)
             THEN /\ nodeIDToNodeMap' = Put(nodeIDToNodeMap, id, node)
                  /\ result' = [raised |-> "none", ret |-> <<>>]
             ELSE /\ UNCHANGED nodeIDToNodeMap
                  /\ result' = [raised |-> "Exception", ret |-> <<>>]
    /\ UNCHANGED <<callVars, isl_graph, isl_dist, global_cache, req_patterns>>

\* Topology.get_Node, line 91: dict.get(_nodeId, None)
GetNodeCall ==
    /\ op = "none"
    /\ \E id \in NodeIds :
          /\ op' = "get_Node"
          /\ args' = <<id>>
          /\ result' = [raised |-> "none",
                        ret |-> IF id \in DOMAIN nodeIDToNodeMap
                                THEN nodeIDToNodeMap[id] ELSE NoNode]
    /\ UNCHANGED <<callVars, isl_graph, isl_dist, global_cache, nodes,
                   nodeIDToNodeMap, req_patterns>>

\* modelcdnprovider.py lines 199-201, the write by which a holder list comes
\* to be: a satellite that misses a content nobody holds registers itself
RegisterHolder ==
    /\ op = "none"
    /\ \E s \in Sats, c \in FreeContents :
          /\ NoHolders(global_cache, c)
          /\ global_cache' = Put(global_cache, c, FirstHolder(s))
    /\ UNCHANGED <<callVars, isl_graph, isl_dist, unitVars>>

\* Topology.get_ISL_dist(nodeFrom, nodeTo)
GetISLDistCall ==
    /\ op = "none"
    /\ \E a, b \in Sats :
        LET o == get_ISL_dist(isl_dist, isl_graph, a, b) IN
          /\ isl_dist' = o.isl_dist
          /\ op' = "get_ISL_dist"
          /\ args' = <<a, b>>
          /\ result' = [raised |-> IF o.raised THEN "KeyError" ELSE "none",
                        ret |-> o.ret]
    /\ UNCHANGED <<callVars, isl_graph, global_cache, nodes, nodeIDToNodeMap,
                   req_patterns>>

\* Topology.get_shortest_replica(nodeFrom, request) on a content that has
\* holders, as line 219 of the provider calls it.  The return statement of
\* line 140 carries one value, min_hop: ret is the sequence of the values
\* returned.
GetShortestReplicaCall ==
    /\ op = "none"
    /\ \E a \in Sats, c \in FreeContents :
          /\ ~NoHolders(global_cache, c)
          /\ LET o == get_shortest_replica(isl_dist, isl_graph, global_cache,
                                           a, c)
             IN /\ isl_dist' = o.isl_dist
                /\ op' = "get_shortest_replica"
                /\ args' = <<a, c>>
                /\ result' = [raised |-> IF o.raised THEN "KeyError"
                                         ELSE "none",
                              ret |-> IF o.raised THEN <<>> ELSE <<o.ret>>]
    /\ UNCHANGED <<callVars, isl_graph, global_cache, nodes, nodeIDToNodeMap,
                   req_patterns>>

InitTopology ==
    /\ InitProviders
    /\ InitScheduler(AllSats, MaxEndTime, 1)
    /\ cacheCapacity = MaxCapacity
    /\ hop_to_check = 1

NextTopology ==
    \/ AddNodeCall
    \/ GetNodeCall
    \/ RegisterHolder
    \/ GetISLDistCall
    \/ GetShortestReplicaCall
    \/ ReturnCall

SpecTopology == InitTopology /\ [][NextTopology]_vars

\* ------------------------------------------------------------ type check
TypeOK ==
    /\ cacheCapacity \in Capacities
    /\ isl_graph \in Graphs
    /\ \A s \in Sats :
        /\ pc[s] \in {"idle", "loop", "consult", "admit", "returned", "raised"}
        /\ requests[s] \in Batches \cup ParBatches \cup {<<>>}
        /\ idx[s] \in 0..Len(requests[s])
        /\ Len(hits[s]) = idx[s]
        /\ error[s] \in {"none", "KeyError", "TypeError", "ValueError",
                         "AssertionError"}
    /\ Cardinality(topology_lock) <= 1
    /\ \A s \in Sats : inside[s] \in 0..1
    /\ sat_nodes \in SatLists
    /\ endTimeStamp \in EndTimes
    /\ timedelta \in Deltas
    /\ timestamp \in Int
    /\ send_time \in Int
    /\ tpc \in {"ready", "send", "calls", "hook", "aborted"}
    /\ ridx \in 0..(NumRequesters + 1)
    /\ hidx \in 0..(Len(sat_nodes) + 1)
    /\ views \in ViewSets
    /\ \A i \in 1..Len(targets) : targets[i].sat \in Sats
    /\ exec_ret \in {"none", "True", "False"}
    /\ exec_error \in {"none", "KeyError", "TypeError", "ValueError",
                       "AssertionError"}
    /\ ticks \in Nat
    /\ hook_calls \in 0..Len(sat_nodes)
    /\ \A r \in Requesters : Len(oos_log[r]) <= 1
    /\ returned_reqs \subseteq Requesters

\* ------------------------------------------------------------- claims
\* a call of handle_requests is running on s
Executing(s) == pc[s] \in {"loop", "consult", "admit"}

\* no satellite is listed for any content
NoReplicas(gc) == \A c \in DOMAIN gc : gc[c] = <<>>

\* C1: whenever no batch is executing on satellite s, a content is in the
\* cache of s if and only if s is in the holder list of that content.
C1_CacheDirectoryAgreement ==
    \A s \in Sats, c \in Contents :
        ~Executing(s) =>
            (InSeq(cache[s], c) <=> InSeq(Holders(global_cache, c), s))

\* C2: the cache of a satellite never holds more entries than its capacity.
C2_CacheWithinCapacity ==
    \A s \in Sats : Len(cache[s]) <= cacheCapacity

C2_Witness ==
    \E s \in Sats :
        /\ pc[s] = "returned"
        /\ requests[s] = S1Batch
        /\ cacheCapacity = 2
        /\ Len(cache[s]) = 2

\* C3: every batch ends by returning hits, with downlink_cnt the length of
\* the batch and the number of true hits equal to
\* downlink_cnt - uplink_cnt - (sum of isl_cnt); no batch ends with an
\* exception.  (Stated for capacity >= 1.)
C3_BatchSanity ==
    \A s \in Sats :
        /\ cacheCapacity >= 1 => pc[s] # "raised"
        /\ pc[s] = "returned" =>
              /\ downlink_cnt[s] = Len(requests[s])
              /\ CountTrue(hits[s]) =
                    downlink_cnt[s] - uplink_cnt[s] - IslSum(isl_cnt[s])

\* reference LRU cache of capacity cap: one request
RefLRUStep(c, r, cap) ==
    LET others == SelectSeq(c, LAMBDA e : e # r)
    IN IF Len(others) < Len(c) THEN others \o <<r>>
       ELSE IF Len(c) >= cap THEN SubSeq(c, 2, Len(c)) \o <<r>>
       ELSE c \o <<r>>

RECURSIVE RefLRU(_, _, _)
RefLRU(c, reqs, cap) ==
    IF reqs = <<>> THEN c
    ELSE RefLRU(RefLRUStep(c, Head(reqs), cap), Tail(reqs), cap)

\* C4: with capacity >= 1, after each request of a batch the cache of the
\* satellite, in order, is that of a reference LRU cache run from the cache
\* at the start of the batch over the requests handled so far; the batch
\* a, b, c, a with capacity 3 from the empty cache ends in b, c, a.
C4_LRURecency ==
    \A s \in Sats :
        (cacheCapacity >= 1 /\ pc[s] \in {"loop", "consult", "admit", "returned"}) =>
            /\ cache[s] =
                  RefLRU(pre_cache[s], SubSeq(requests[s], 1, idx[s]), cacheCapacity)
            /\ (/\ pc[s] = "returned"
                /\ requests[s] = LRUBatch
                /\ cacheCapacity = 3
                /\ pre_cache[s] = <<>>) => cache[s] = <<"b", "c", "a">>

C4_Witness ==
    \E s \in Sats :
        /\ pc[s] = "returned"
        /\ requests[s] = LRUBatch
        /\ cacheCapacity = 3
        /\ pre_cache[s] = <<>>
        /\ cache[s] = <<"b", "c", "a">>

\* the batch of scenario S1 on s: capacity 2, empty cache, empty directory
S1Case(s) ==
    /\ requests[s] = S1Batch
    /\ cacheCapacity = 2
    /\ pre_cache[s] = <<>>
    /\ NoReplicas(pre_global_cache[s])

\* C5: scenario S1: the batch x, y, x, z, y (here a, b, a, c, b) returns
\* hits false, false, true, false, false, leaves the cache z, y (here c, b)
\* and the directory x -> [], y -> [s], z -> [s].
C5_ScenarioS1Results ==
    \A s \in Sats :
        (pc[s] = "returned" /\ S1Case(s)) =>
            /\ hits[s] = <<FALSE, FALSE, TRUE, FALSE, FALSE>>
            /\ cache[s] = <<"c", "b">>
            /\ "a" \in DOMAIN global_cache /\ global_cache["a"] = <<>>
            /\ Holders(global_cache, "b") = <<s>>
            /\ Holders(global_cache, "c") = <<s>>

C5_Witness ==
    \E s \in Sats :
        /\ pc[s] = "returned"
        /\ S1Case(s)
        /\ hits[s] = <<FALSE, FALSE, TRUE, FALSE, FALSE>>
        /\ cache[s] = <<"c", "b">>

\* C6 as stated: scenario S1: when the five requests have been handled,
\* uplink_cnt = 3.
C6_ScenarioS1UplinkThree ==
    \A s \in Sats :
        (pc[s] \in {"loop", "returned"} /\ idx[s] = Len(S1Batch) /\ S1Case(s)) =>
            uplink_cnt[s] = 3

\* C6 as amended: scenario S1: when the five requests have been handled,
\* uplink_cnt = 4: the four misses x, y, z and the second y, which was
\* evicted by z, are all fetched from ground.
C6_ScenarioS1Uplink ==
    \A s \in Sats :
        (pc[s] \in {"loop", "returned"} /\ idx[s] = Len(S1Batch) /\ S1Case(s)) =>
            uplink_cnt[s] = 4

C6_Witness ==
    \E s \in Sats :
        /\ pc[s] = "returned"
        /\ S1Case(s)
        /\ uplink_cnt[s] = 4
        /\ downlink_cnt[s] = 5

\* the remote hit of scenario S2 is about to be resolved on s1: s1.next = s2,
\* the directory lists s2 alone for the requested content, hop_to_check = 1
S2Case(s1, s2) ==
    /\ s1 # s2
    /\ pc[s1] = "consult"
    /\ requests[s1] = S2Batch
    /\ isl_graph[IntToStr(s1)][1] = IntToStr(s2)
    /\ Holders(global_cache, "a") = <<s2>>
    /\ hop_to_check = 1

\* C7: scenario S2: the remote hit is resolved over the 'next' link: the
\* call goes on to the admission with isl_cnt = [1, 0, 0, 0], uplink_cnt = 0
\* and the directory v -> [s2, s1].
C7_ScenarioS2 ==
    [][\A s1, s2 \in Sats :
          (S2Case(s1, s2) /\ pc'[s1] # "consult") =>
              /\ pc'[s1] = "admit"
              /\ isl_cnt'[s1] = <<1, 0, 0, 0>>
              /\ uplink_cnt'[s1] = 0
              /\ Holders(global_cache', "a") = <<s2, s1>>]_vars

\* the remote hit of scenario S3 is about to be resolved on satellite 1: the
\* only holder is satellite 4, three hops away on the path 1 - 2 - 3 - 4
S3Case ==
    /\ isl_graph \in {GraphPath, GraphOpen}
    /\ pc[1] = "consult"
    /\ requests[1] = S3Batch
    /\ Holders(global_cache, "a") = <<4>>
    /\ hop_to_check = 1

\* C8: scenario S3: the remote hit beyond the threshold is fetched from
\* ground: the call goes on to the admission with uplink_cnt = 1, all ISL
\* counters 0 and the directory w -> [s2, s1].
C8_ScenarioS3 ==
    [][(S3Case /\ pc'[1] # "consult") =>
          /\ pc'[1] = "admit"
          /\ uplink_cnt'[1] = 1
          /\ isl_cnt'[1] = <<0, 0, 0, 0>>
          /\ Holders(global_cache', "a") = <<4, 1>>]_vars

\* the batch of scenario S4 on s: capacity 1, empty cache, empty directory
S4Case(s) ==
    /\ requests[s] = S4Batch
    /\ cacheCapacity = 1
    /\ pre_cache[s] = <<>>
    /\ NoReplicas(pre_global_cache[s])

\* C9: a miss admitted while the cache is at capacity removes exactly the
\* oldest entry before the insertion and removes this satellite from the
\* holder list of that entry, all while the satellite holds the topology
\* lock; in scenario S4 the first admission leaves a -> [s] and the second
\* leaves the cache [b], a -> [] and b -> [s].
C9_EvictionUpdatesDirectory ==
    [][\A s \in Sats :
          (pc[s] = "admit" /\ pc'[s] = "loop") =>
              /\ topology_lock = {s}
              /\ (cacheCapacity >= 1 /\ Len(cache[s]) = cacheCapacity) =>
                    /\ cache'[s] = Tail(cache[s]) \o <<CurrentRequest(s)>>
                    /\ ~InSeq(Holders(global_cache', Head(cache[s])), s)
                    /\ InSeq(Holders(global_cache, Head(cache[s])), s)
                    /\ \A c \in Contents \ {Head(cache[s])} :
                          Holders(global_cache', c) = Holders(global_cache, c)
              /\ (S4Case(s) /\ idx[s] = 0) =>
                    /\ cache'[s] = <<"a">>
                    /\ Holders(global_cache', "a") = <<s>>
              /\ (S4Case(s) /\ idx[s] = 1) =>
                    /\ cache'[s] = <<"b">>
                    /\ "a" \in DOMAIN global_cache' /\ global_cache'["a"] = <<>>
                    /\ Holders(global_cache', "b") = <<s>>]_vars

C9_Witness ==
    \E s \in Sats :
        /\ pc[s] = "returned"
        /\ S4Case(s)
        /\ cache[s] = <<"b">>
        /\ Holders(global_cache, "a") = <<>>
        /\ Holders(global_cache, "b") = <<s>>

\* the hop count line 219 asks for: the least distance to a holder
ShortestHops(s, r) ==
    get_shortest_replica(isl_dist, isl_graph, global_cache, s, r).ret

\* C10: a remote hit is counted on an ISL counter if and only if the
\* shortest hop count is at most the hop_to_check of the call, and on
\* uplink_cnt otherwise; stated for the calls with hop_to_check = 2 and the
\* nearest holder at least two hops away, where a threshold of 1 and the
\* threshold of the call differ or agree on uplink.
C10_HopToCheckGoverns ==
    [][\A s \in Sats :
          (/\ pc[s] = "consult"
           /\ ~NoHolders(global_cache, CurrentRequest(s))
           /\ hop_to_check = 2
           /\ ShortestHops(s, CurrentRequest(s)) >= 2
           /\ pc'[s] # "consult") =>
              IF ShortestHops(s, CurrentRequest(s)) <= hop_to_check
              THEN /\ IslSum(isl_cnt'[s]) = IslSum(isl_cnt[s]) + 1
                   /\ uplink_cnt'[s] = uplink_cnt[s]
              ELSE /\ IslSum(isl_cnt'[s]) = IslSum(isl_cnt[s])
                   /\ uplink_cnt'[s] = uplink_cnt[s] + 1]_vars

\* number of times e occurs in the list q
Occurrences(q, e) == Cardinality({i \in 1..Len(q) : q[i] = e})

\* the law of C11 for satellite s with cache c and directory gc: the contents
\* admitted in the batch and still cached list s exactly once, those
\* evicted and not admitted again do not list s
HolderLaw(s, c, gc) ==
    /\ \A x \in admitted[s] :
          InSeq(c, x) => Occurrences(Holders(gc, x), s) = 1
    /\ \A x \in evicted[s] : ~InSeq(Holders(gc, x), s)

\* C11: at the end of every batch on s (and after every request of it),
\* every content admitted during the batch and still cached has s in its
\* holder list exactly once, and every content evicted during the batch and
\* not admitted again has s absent from its holder list; this also holds
\* for the state a batch leaves when it ends with an exception.
C11_HolderExactlyOnce ==
    /\ [](\A s \in Sats :
            pc[s] \in {"loop", "returned"} => HolderLaw(s, cache[s], global_cache))
    /\ [][\A s \in Sats :
            (pc[s] # "raised" /\ pc'[s] = "raised") =>
                HolderLaw(s, cache'[s], global_cache')]_vars

C11_Witness ==
    \E s \in Sats :
        /\ pc[s] = "returned"
        /\ requests[s] = S1Batch
        /\ cacheCapacity = 2
        /\ admitted[s] = {"a", "b", "c"}
        /\ evicted[s] = {"a"}
        /\ Occurrences(Holders(global_cache, "b"), s) = 1

\* C12: at most one batch is inside the critical section of a satellite at
\* any time, the provider lock is held while a batch is inside, and the
\* cache and the size counter of a satellite change only in a step of the
\* one batch that is inside: between two batches they stay as the earlier
\* batch left them, so each batch starts from the cache of the previous one.
C12_PerSatelliteSerialization ==
    /\ [](\A s \in Sats : inside[s] <= 1 /\ (inside[s] = 1 => lock[s]))
    /\ [][\A s \in Sats :
            (cache'[s] # cache[s] \/ cacheSize'[s] # cacheSize[s]) =>
                (inside[s] = 1 /\ inside'[s] = 1)]_vars
    /\ [][\A s \in Sats :
            (inside[s] = 0 /\ inside'[s] = 1) => pre_cache'[s] = cache[s]]_vars

\* a batch is inside on s, which started from the cache an earlier batch
\* left, while a batch is inside on another satellite too
C12_Witness ==
    \E s, u \in Sats :
        /\ s # u
        /\ inside[s] = 1 /\ inside[u] = 1
        /\ pc[s] = "admit"
        /\ pre_cache[s] # <<>>

\* C13: the topology lock is held only by a thread that holds its provider
\* lock, a thread that holds the topology lock acquires no provider lock,
\* and no batch is left unable to return: no batch ends with an exception and
\* no provider lock stays held after the thread that took it has left, which
\* would block every later batch on that satellite for ever (stated for the
\* capacities >= 1).
C13_LockOrderNoDeadlock ==
    /\ [](\A s \in Sats : topology_lock = {s} => (lock[s] /\ inside[s] = 1))
    /\ [][\A s \in Sats :
            (~lock[s] /\ lock'[s]) => topology_lock # {s}]_vars
    /\ [](cacheCapacity >= 1 =>
            \A s \in Sats : lock[s] => (inside[s] = 1 /\ pc[s] # "raised"))

\* the thread on s is at a line that reads or writes the directory: the
\* lookup of line 199, the registration of line 201, the holder scans of
\* lines 210 and 219 (topology.py 137), the append of line 232 and the
\* removal of line 239
AtDirectoryAccess(s) == pc[s] \in {"consult", "admit"}

\* C14: every read and every write of the replica directory happens while
\* the accessing thread holds the topology lock: a thread at a line that
\* accesses the directory holds it, and the directory changes only in a
\* step of the thread that holds it.
C14_DirectoryUnderTopologyLock ==
    /\ [](\A s \in Sats : AtDirectoryAccess(s) => topology_lock = {s})
    /\ [][global_cache' # global_cache =>
            \E s \in Sats :
                /\ topology_lock = {s}
                /\ AtDirectoryAccess(s)
                /\ pc'[s] # pc[s]]_vars

\* s holds the topology lock and is about to evict, while another thread has
\* a local miss to resolve and has to wait at line 198
C14_Witness ==
    \E s, u \in Sats :
        /\ s # u
        /\ pc[s] = "admit"
        /\ topology_lock = {s}
        /\ Len(cache[s]) = cacheCapacity
        /\ cacheCapacity >= 1
        /\ pc[u] = "loop"
        /\ idx[u] < Len(requests[u])
        /\ ~InSeq(cache[u], CurrentRequest(u))

\* C15: within every tick the post-epoch hook of a satellite is invoked
\* only after send_requests of every requester of that tick has returned: no
\* requester is still to run, none has calls left to make, and no call of
\* handle_requests is in progress.
C15_HooksAfterRequesters ==
    [][hook_calls' > hook_calls =>
          /\ returned_reqs = Requesters
          /\ targets = <<>>
          /\ TickQuiet
          /\ \A s \in Sats : inside[s] = 0]_vars

\* the hook has been invoked in a tick in which a requester had a batch
\* handled by a satellite
C15_Witness ==
    /\ hook_calls = 1
    /\ returned_reqs = Requesters
    /\ ticks = 1
    /\ \E s \in Sats : cache[s] # <<>>

\* C16: tick time law. A call of Execute with timestamp <= endTimeStamp first
\* advances the timestamp by exactly timedelta and the requests of the tick
\* are dispatched at the advanced time, so the k-th tick runs at
\* StartTime + k * timedelta and the time strictly increases; a call with
\* timestamp > endTimeStamp returns False, leaves the timestamp unchanged,
\* dispatches no request and invokes no post-epoch hook.
C16_TickTimeLaw ==
    /\ [](timestamp = StartTime + ticks * timedelta)
    /\ [](tpc = "calls" => send_time = timestamp)
    /\ [][/\ ticks' # ticks =>
               /\ timestamp <= endTimeStamp
               /\ ticks' = ticks + 1
               /\ timestamp' = timestamp + timedelta
               /\ timestamp' > timestamp
               /\ dispatched' = dispatched
          /\ timestamp' # timestamp => ticks' # ticks
          /\ send_time' # send_time =>
               /\ ticks >= 1
               /\ send_time' = StartTime + ticks * timedelta
          /\ dispatched' # dispatched =>
               /\ ticks >= 1
               /\ send_time = StartTime + ticks * timedelta
          /\ (exec_ret' = "False" /\ (exec_ret # "False" \/ tpc' # tpc)) =>
               /\ timestamp > endTimeStamp
               /\ timestamp' = timestamp
               /\ dispatched' = dispatched
               /\ hook_calls' = hook_calls
               /\ tpc' = "ready"
               /\ UNCHANGED <<cache, cacheSize, global_cache, pc, targets,
                              ridx, hidx>>]_vars

\* the second tick of a run has dispatched a batch at the advanced time
\* StartTime + 2 * timedelta
C16_Witness ==
    /\ ticks = 2
    /\ timestamp = StartTime + 2 * timedelta
    /\ send_time = timestamp
    /\ \E s \in Sats : pc[s] = "loop"

\* C17: run completion. In a topology with at least one satellite and a
\* positive granularity, no call of Execute with timestamp <= endTimeStamp is
\* left by an exception: every tick that began comes to return True.
C17_RunCompletes ==
    [](Len(sat_nodes) >= 1 /\ timedelta > 0 => tpc # "aborted")

\* C18: the post-epoch hook invoked on the provider of a satellite leaves the
\* cache of that satellite (contents and order), its size counter and the
\* replica directory unchanged; so it does every other cache.
C18_HookFrame ==
    [][hook_calls' > hook_calls =>
          /\ tpc = "hook"
          /\ cache' = cache
          /\ cacheSize' = cacheSize
          /\ global_cache' = global_cache]_vars

\* the hook has been invoked on a satellite that caches a content the
\* directory lists
C18_Witness ==
    /\ hook_calls >= 1
    /\ hidx = 1
    /\ Len(sat_nodes) >= 1
    /\ cache[sat_nodes[1]] # <<>>
    /\ cacheSize[sat_nodes[1]] >= 1
    /\ global_cache # EmptyMap

\* C19: a call of call_APIs with an API name that is not in the dispatch
\* table returns None to the caller without raising, leaves the caches and
\* the directory unchanged, and the execution goes on: the loop of Execute
\* moves to the next satellite.
C19_UnknownApiReturnsNone ==
    [][(hook_calls' > hook_calls /\ "post_epoch_hook" \notin apiHandlerDictionary) =>
          /\ exec_error' = "none"
          /\ tpc' = "hook"
          /\ hidx' = hidx + 1
          /\ cache' = cache
          /\ global_cache' = global_cache]_vars

\* C20: out of service. When no satellite is in view of the requester at the
\* time t of the tick, send_requests makes no call of handle_requests, changes
\* no cache and no directory entry, writes exactly one "Out of service" line
\* at t, and returns normally: the tick goes on with the next requester.
C20_OutOfService ==
    /\ [](\A r \in Requesters : Len(oos_log[r]) <= 1)
    /\ [][(/\ tpc = "send"
           /\ tpc' # "hook"
           /\ <<tpc, ridx>>' # <<tpc, ridx>>
           /\ views' = {}) =>
             /\ dispatched' = dispatched
             /\ targets' = <<>>
             /\ pc' = pc
             /\ cache' = cache
             /\ cacheSize' = cacheSize
             /\ global_cache' = global_cache
             /\ oos_log[ridx] = <<>>
             /\ oos_log' = [oos_log EXCEPT ![ridx] = <<timestamp>>]
             /\ send_time' = timestamp
             /\ exec_error' = "none"
             /\ tpc' = "send"
             /\ returned_reqs' = returned_reqs \cup {ridx}
             /\ ridx' = ridx + 1]_vars

\* the first requester was out of service, left one line at the time of the
\* tick, and the second requester of the tick has a batch on a satellite
C20_Witness ==
    /\ oos_log[1] = <<timestamp>>
    /\ returned_reqs = {1}
    /\ ridx = 2
    /\ tpc = "calls"
    /\ \E s \in Sats : pc[s] = "loop"

RECURSIVE Flatten(_, _)
\* the concatenation of the first n chunks, in order
Flatten(parts, n) ==
    IF n = 0 THEN <<>> ELSE Flatten(parts, n - 1) \o parts[n]

\* the sizes of the chunks, in order
Sizes(parts) == [i \in 1..Len(parts) |-> Len(parts[i])]

\* C21: load-balanced split. A request list of length n is split over k >= 1
\* selected satellites into k contiguous chunks whose concatenation in order
\* is the list, whose sizes differ by at most 1, the first n mod k chunks
\* being the larger ones; 10 requests over 3 satellites give the sizes
\* [4, 3, 3].
C21_LoadBalancedSplit ==
    op = "array_split" =>
        LET q == args[1]
            k == args[2]
            n == Len(q)
        IN /\ Len(result) = k
           /\ Flatten(result, k) = q
           /\ \A i, j \in 1..k : Len(result[i]) - Len(result[j]) <= 1
           /\ \A i \in 1..k :
                Len(result[i]) = n \div k + (IF i <= n % k THEN 1 ELSE 0)
           /\ (n = 10 /\ k = 3) => Sizes(result) = <<4, 3, 3>>

\* ten requests have been split over three satellites
C21_Witness ==
    /\ op = "array_split"
    /\ Len(args[1]) = 10
    /\ args[2] = 3
    /\ Sizes(result) = <<4, 3, 3>>
    /\ result[2] = <<5, 6, 7>>

\* the satellites of the rows of a view
RowIds(rows) == {rows[i][1] : i \in 1..Len(rows)}

\* the elevation of satellite s in the rows
ElevationOf(rows, s) ==
    LET i == CHOOSE j \in 1..Len(rows) : rows[j][1] = s IN rows[i][2]

\* C22: scheduler selection. For N >= 1 and a non-empty view,
\* schduleLargestElevation returns exactly min(N, |visible|) distinct
\* satellites of the view, no satellite left out has a higher elevation than
\* one returned, and they come in ascending order of elevation (the highest
\* last).
C22_SchedulerSelection ==
    (op = "schduleLargestElevation" /\ args[2] >= 1) =>
        LET rows == args[1]
            n == args[2]
            sel == result
        IN /\ Len(sel) = Min(n, Len(rows))
           /\ \A i, j \in 1..Len(sel) : i # j => sel[i] # sel[j]
           /\ \A i \in 1..Len(sel) : sel[i] \in RowIds(rows)
           /\ \A i \in 1..Len(sel) :
                \A s \in RowIds(rows) \ {sel[j] : j \in 1..Len(sel)} :
                    ElevationOf(rows, s) <= ElevationOf(rows, sel[i])
           /\ \A i, j \in 1..Len(sel) :
                i < j => ElevationOf(rows, sel[i]) <= ElevationOf(rows, sel[j])

\* two of three satellites in view were asked for: the one of lowest
\* elevation, first in node order, is left out and the highest comes last
C22_Witness ==
    /\ op = "schduleLargestElevation"
    /\ args[1] = <<<<1, 25>>, <<2, 60>>, <<4, 40>>>>
    /\ args[2] = 2
    /\ result = <<4, 2>>

\* C23: the ISL hop distance is symmetric and zero on the diagonal: for all
\* satellites a and b of the ISL graph, get_ISL_dist(a, b) returns a value,
\* the call get_ISL_dist(b, a) returns the same value, and
\* get_ISL_dist(a, a) returns 0.
C23_HopDistanceSymmetric ==
    op = "get_ISL_dist" =>
        LET a == args[1]
            b == args[2]
            back == get_ISL_dist(isl_dist, isl_graph, b, a)
        IN /\ result.raised = "none"
           /\ ~back.raised
           /\ back.ret = result.ret
           /\ a = b => result.ret = 0

\* the satellites one ISL edge away from a satellite of S
Step1(graph, S) ==
    {StrToInt(graph[IntToStr(s)][i]) : s \in S, i \in 1..4} \cap Sats

RECURSIVE PathLen(_, _, _, _)
\* the number of edges of a shortest path to b from the nearest satellite
\* of frontier, not going through seen; -1 when there is none
PathLen(graph, frontier, seen, b) ==
    IF b \in frontier THEN 0
    ELSE LET next == Step1(graph, frontier) \ seen
         IN IF next = {} THEN 0 - 1
            ELSE LET rest == PathLen(graph, next, seen \cup next, b)
                 IN IF rest < 0 THEN rest ELSE rest + 1

\* the length of a shortest path from a to b over ISL edges, -1 if none
ShortestPath(graph, a, b) == PathLen(graph, {a}, {a}, b)

Reachable(graph, a, b) == ShortestPath(graph, a, b) >= 0

\* C24: for a target that is not reachable from the source over ISL edges the
\* hop-distance lookup raises no error and returns an 'infinite' value, one
\* larger than any hop distance of the graph.
C24_UnreachableIsInfinite ==
    (op = "get_ISL_dist" /\ ~Reachable(isl_graph, args[1], args[2])) =>
        /\ result.raised = "none"
        /\ result.ret > Cardinality(Sats)

\* the least hop distance from a to a holder of the list
MinOverHolders(graph, a, holders) ==
    LET ds == {ShortestPath(graph, a, holders[i]) : i \in 1..Len(holders)}
    IN CHOOSE d \in ds : \A e \in ds : d <= e

\* the neighbour of a in the first of the slots next, prev, left, right that
\* names a holder of the list
FirstHolderSlot(graph, a, holders) ==
    LET slots == {i \in 1..4 : InSeq(holders, StrToInt(graph[IntToStr(a)][i]))}
        first == CHOOSE i \in slots : \A j \in slots : i <= j
    IN StrToInt(graph[IntToStr(a)][first])

\* C25: the shortest-replica lookup for (from, contentID) returns two values:
\* the minimum of the hop distances from 'from' to the holders of contentID
\* and, when that minimum is 1, the neighbour of 'from' that reaches it, the
\* first in the order next, prev, left, right.
C25_ShortestReplicaPair ==
    (op = "get_shortest_replica" /\ result.raised = "none") =>
        LET a == args[1]
            holders == global_cache[args[2]]
        IN /\ Len(result.ret) = 2
           /\ result.ret[1] = MinOverHolders(isl_graph, a, holders)
           /\ result.ret[1] = 1 =>
                result.ret[2] = FirstHolderSlot(isl_graph, a, holders)

\* the node of that id that add_Node received first
FirstAdded(id) ==
    LET i == CHOOSE j \in 1..Len(nodes) :
                 /\ nodes[j].nodeID = id
                 /\ \A k \in 1..(j - 1) : nodes[k].nodeID # id
    IN nodes[i]

\* C26: adding a node whose id already exists in the topology fails with an
\* error, and get_Node for that id still returns the node added first.
C26_DuplicateNodeRejected ==
    /\ [][(op' = "add_Node" /\ op = "none"
              /\ \E i \in 1..Len(nodes) : nodes[i].nodeID = args'[1].nodeID) =>
            /\ result'.raised = "Exception"
            /\ nodeIDToNodeMap' = nodeIDToNodeMap]_vars
    /\ [](\A id \in DOMAIN nodeIDToNodeMap :
            nodeIDToNodeMap[id] = FirstAdded(id))
    /\ []((op = "get_Node" /\ \E i \in 1..Len(nodes) : nodes[i].nodeID = args[1])
            => result.ret = FirstAdded(args[1]))

\* a second node of id 1 was refused, and get_Node(1) returns the first
C26_Witness ==
    /\ op = "get_Node"
    /\ args = <<1>>
    /\ Len(nodes) >= 2
    /\ nodes[1].nodeID = 1
    /\ nodes[2].nodeID = 1
    /\ result.ret = [nodeID |-> 1, serial |-> 1]

\* C27: an access pattern whose probabilities do not sum to 1 is rejected
\* when the traffic scheduler and its requesters are constructed: no
\* requester is ever constructed with such a pattern, so no generation of
\* requests meets one.
C27_PatternRejectedAtStartup ==
    /\ \A i \in 1..Len(req_patterns) : PatternSum(req_patterns[i]) = 100
    /\ op = "generateByDistribution" => result.raised = "none"

\* C28: for every source s and every target t reachable from s,
\* get_ISL_dist(s, t) returns the length of a shortest path from s to t in the
\* ISL adjacency; the first call for s leaves in the memo the distance to
\* every reachable target, and a later call for s leaves the memo unchanged.
C28_ShortestPathMemoised ==
    /\ []((op = "get_ISL_dist" /\ Reachable(isl_graph, args[1], args[2])) =>
            /\ result.raised = "none"
            /\ result.ret = ShortestPath(isl_graph, args[1], args[2]))
    /\ [][(op' = "get_ISL_dist" /\ op = "none") =>
            LET s == args'[1] IN
              IF s \in DOMAIN isl_dist
              THEN isl_dist' = isl_dist
              ELSE /\ s \in DOMAIN isl_dist'
                   /\ \A t \in Sats :
                        Reachable(isl_graph, s, t) =>
                          /\ t \in DOMAIN isl_dist'[s]
                          /\ isl_dist'[s][t] = ShortestPath(isl_graph, s, t)]_vars

\* the thread on s is at the lines that use the distance memo: the lookup
\* of line 218 and get_shortest_replica of line 219
AtMemoAccess(s) == pc[s] = "consult"

\* C29: the ISL distance memo is safe under concurrent use. With batches on
\* several satellites in parallel, at most one thread is at the lines that
\* read or populate the memo, that thread holds the topology lock, and the
\* memo changes only in a step of that thread: no thread reads the table of a
\* source while another thread's BFS is populating it, and no two threads
\* populate it at once.
C29_DistanceMemoSafe ==
    /\ [](Cardinality({s \in Sats : AtMemoAccess(s)}) <= 1)
    /\ [](\A s \in Sats : AtMemoAccess(s) => topology_lock = {s})
    /\ [][isl_dist' # isl_dist =>
            \E s \in Sats :
                /\ AtMemoAccess(s)
                /\ topology_lock = {s}
                /\ pc'[s] = "raised"
                /\ \A u \in DOMAIN isl_dist' \ DOMAIN isl_dist : u = s
                /\ \A u \in DOMAIN isl_dist : isl_dist'[u] = isl_dist[u]]_vars

\* the BFS for source s has populated the memo, and while the call on s has
\* ended another thread is at the lines that use the memo
C29_Witness ==
    \E s, u \in Sats :
        /\ s # u
        /\ s \in DOMAIN isl_dist
        /\ pc[s] = "raised"
        /\ AtMemoAccess(u)
        /\ ~NoHolders(global_cache, CurrentRequest(u))

\* the call on s is at a remote hit: the content it missed has holders
AtRemoteHit(s) ==
    /\ pc[s] = "consult"
    /\ ~NoHolders(global_cache, CurrentRequest(s))

\* C30: for every remote hit the batch goes on to its '[Missed but
\* available]' telemetry, and the ISL hop value recorded for it is the hop
\* distance from this satellite to the holder of minimum Euclidean distance,
\* whichever holder of the list that is.
C30_TelemetryHopToClosest ==
    [][\A s \in Sats :
         (AtRemoteHit(s) /\ pc'[s] # pc[s]) =>
            /\ pc'[s] # "raised"
            /\ error'[s] = "none"
            /\ \A i \in 1..Len(global_cache[CurrentRequest(s)]) :
                 LET closest == global_cache[CurrentRequest(s)][i] IN
                   RemoteHitOutcome(isl_dist, isl_graph, global_cache, s,
                                    CurrentRequest(s)).isl_hop
                     = ShortestPath(isl_graph, s, closest)]_vars

\* the call on s consults the directory for a content whose key is present
\* with an empty holder list
AtEmptyHolderList(s) ==
    /\ pc[s] = "consult"
    /\ CurrentRequest(s) \in DOMAIN global_cache
    /\ global_cache[CurrentRequest(s)] = <<>>

\* C31: a directory key present with an empty holder list is treated like an
\* absent key: the local miss takes the no-holder branch (one uplink, no ISL
\* fetch, no error) and makes this satellite the only holder, and the list
\* is still exactly [this satellite] when the request has been handled.
C31_EmptyListIsNoReplica ==
    /\ [][\A s \in Sats :
            (AtEmptyHolderList(s) /\ pc'[s] # pc[s]) =>
               /\ pc'[s] = "admit"
               /\ error'[s] = "none"
               /\ uplink_cnt'[s] = uplink_cnt[s] + 1
               /\ isl_cnt'[s] = isl_cnt[s]
               /\ global_cache' =
                     Put(global_cache, CurrentRequest(s), <<s>>)]_vars
    /\ [][\A s \in Sats :
            (pc[s] = "admit" /\ pc'[s] # pc[s]) =>
               global_cache'[CurrentRequest(s)] = <<s>>]_vars

C31_Witness ==
    \E s \in Sats :
        /\ pc[s] = "loop"
        /\ idx[s] >= 1
        /\ requests[s][idx[s]] \in DOMAIN pre_global_cache[s]
        /\ pre_global_cache[s][requests[s][idx[s]]] = <<>>
        /\ ~InSeq(pre_cache[s], requests[s][idx[s]])
        /\ idx[s] = 1
        /\ uplink_cnt[s] = 1
        /\ global_cache[requests[s][idx[s]]] = <<s>>

\* the requests of the calls made so far, one after the other
Dispatched(cs) == Flatten([i \in 1..Len(cs) |-> cs[i].requests], Len(cs))

\* the calls send_requests has to make for the satellites sel and the
\* requests total: chunk i of the split goes to the i-th satellite with the
\* hop_to_check of the requester
ExpectedCalls(sel, total, hop) ==
    [i \in 1..Len(sel) |->
        [sat |-> sel[i], requests |-> ArraySplit(total, Len(sel))[i],
         hop_to_check |-> hop]]

\* C32: whenever the scheduler returned k >= 1 satellites, send_requests ends
\* having called handle_requests exactly once on each selected satellite,
\* chunk i on the i-th satellite of the scheduler's list, every call with the
\* requester's hop_to_check, and the requests of the calls together are the
\* numRequests requests generated.
C32_DispatchPerSatellite ==
    [][(tpc = "calls" /\ tpc' # "calls") =>
          /\ Len(targetSatellites) >= 1
          /\ calls = ExpectedCalls(targetSatellites, total_requests,
                                   hop_to_check)
          /\ \A i \in 1..Len(targetSatellites) :
                Cardinality({j \in 1..Len(calls) :
                                calls[j].sat = targetSatellites[i]}) = 1
          /\ Dispatched(calls) = total_requests]_vars

\* C33: a requester with load_balance_count 0 that has satellites in view
\* gets no satellite from the scheduling strategy.
C33_ZeroCountSelectsNone ==
    (op = "schduleLargestElevation" /\ args[2] = 0) => result = <<>>

\* C34: every exit from handle_requests on s, the exits by an exception
\* included, leaves the provider lock of s released, so the lock is held only
\* while a batch is executing on s and a later batch on s can acquire it.
C34_ProviderLockReleased ==
    /\ [][\A s \in Sats :
            (Executing(s) /\ ~Executing(s)') => ~lock'[s]]_vars
    /\ [](\A s \in Sats : lock[s] => Executing(s))

\* the call on s consults the directory for a content that had no holder
\* when the call began
AtFirstMiss(s) ==
    /\ pc[s] = "consult"
    /\ NoHolders(pre_global_cache[s], CurrentRequest(s))

\* C35: of the satellites that miss concurrently on a content without
\* holder, the one that finds the directory still without holder takes the
\* no-holder branch (first holder, one uplink); every other one finds a
\* non-empty list, handles the request as a remote hit without error and is
\* appended to the list, so that the list then has each of them exactly once.
C35_ConcurrentFirstMisses ==
    [][\A s \in Sats :
         (AtFirstMiss(s) /\ pc'[s] # pc[s]) =>
            LET c == CurrentRequest(s) IN
              IF NoHolders(global_cache, c)
              THEN /\ global_cache' = Put(global_cache, c, <<s>>)
                   /\ uplink_cnt'[s] = uplink_cnt[s] + 1
              ELSE /\ pc'[s] = "admit"
                   /\ error'[s] = "none"
                   /\ global_cache' =
                         Put(global_cache, c, Append(global_cache[c], s))
                   /\ \A u \in Sats :
                         Occurrences(global_cache'[c], u) <= 1]_vars

\* the holders of a list other than s, in the order of the list
OtherHolders(q, s) == SelectSeq(q, LAMBDA x : x # s)

\* the step is one of the batch that is executing on s
StepOfBatch(s) ==
    /\ Executing(s)
    /\ (pc'[s] # pc[s] \/ idx'[s] # idx[s])

\* C36: a step of a batch on s leaves the cache of every other satellite as
\* it is and, in every holder list of the directory, the IDs of the other
\* satellites: none is added, none removed, and their order is kept.
C36_BatchFrame ==
    [][\A s \in Sats :
         StepOfBatch(s) =>
            /\ \A u \in Sats \ {s} :
                  cache'[u] = cache[u] /\ cacheSize'[u] = cacheSize[u]
            /\ \A c \in Contents :
                  OtherHolders(Holders(global_cache', c), s)
                    = OtherHolders(Holders(global_cache, c), s)]_vars

\* the batch on s has admitted and evicted while u holds a content of its
\* own in the directory
C36_Witness ==
    \E s, u \in Sats :
        /\ s # u
        /\ pc[s] = "loop"
        /\ admitted[s] # {}
        /\ evicted[s] # {}
        /\ cache[u] # <<>>
        /\ \E c \in Contents : Holders(global_cache, c) = <<u>>

\* C37: with cache capacity 0 no batch ends with an error, every request is
\* a miss, every cache stays empty, and a satellite on which no batch is
\* executing is in no holder list of the directory.
C37_ZeroCapacity ==
    cacheCapacity = 0 =>
        \A s \in Sats :
            /\ error[s] = "none"
            /\ pc[s] # "raised"
            /\ cache[s] = <<>>
            /\ \A i \in 1..Len(hits[s]) : ~hits[s][i]
            /\ ~Executing(s) =>
                  \A c \in Contents : ~InSeq(Holders(global_cache, c), s)

\* some slot of the ISL graph holds the no-neighbour sentinel
HasAbsentSlot(graph) ==
    \E k \in DOMAIN graph : \E i \in 1..4 : graph[k][i] = NoNeighbor

\* C38: on an ISL graph with absent neighbour slots get_ISL_dist raises no
\* error, the memo holds no distance for the sentinel, and the value returned
\* for a reachable target is the length of a shortest path over the slots
\* that name satellites.
C38_AbsentSlotsNoEdges ==
    (op = "get_ISL_dist" /\ HasAbsentSlot(isl_graph)) =>
        /\ result.raised = "none"
        /\ \A s \in DOMAIN isl_dist :
              \A t \in DOMAIN isl_dist[s] : t \in Sats
        /\ Reachable(isl_graph, args[1], args[2]) =>
              result.ret = ShortestPath(isl_graph, args[1], args[2])

\* C39: the size counter of a provider equals the number of entries of its
\* cache whenever the provider is not in the middle of a request: after a
\* hit, after a miss admitted below the capacity, after a miss admitted with
\* an eviction, and between the batches.
C39_SizeCounterIsCacheLength ==
    \A s \in Sats :
        pc[s] \notin {"consult", "admit"} => cacheSize[s] = Len(cache[s])

\* a batch with a hit, misses below the capacity and misses with eviction
\* has returned on a provider of capacity 2
C39_Witness ==
    \E s \in Sats :
        /\ pc[s] = "returned"
        /\ cacheCapacity = 2
        /\ hits[s] = <<FALSE, FALSE, TRUE, FALSE, FALSE>>
        /\ evicted[s] # {}
        /\ cacheSize[s] = 2
        /\ Len(cache[s]) = 2

====
